---- MODULE Spec2Model ----
(***************************************************************************)
(* Model of tooling/tikzbot.py (the refinement driver) and of the part of  *)
(* tooling/gen_chapter_list.py it runs first.  Scores are thousandths      *)
(* (0.985 is 985).  Files are modelled by their content: a snippet is the  *)
(* sequence of its \def\knob{value} declarations, a PNG is the pair        *)
(* (stem, snippet content) it was rendered from.                           *)
(***************************************************************************)
EXTENDS Integers, Sequences, FiniteSets, TLC

\* ---------------------------------------------------------------- bounds
NumTargets == 3
NumGroups == 2

\* ------------------------------------------------------ program constants
SSIM_OK == 985
LowBucket == 960
MaxAttempts == 6

Scores == {959, 960, 984, 985}

\* a file is absent, or has a content
NoFile == [exists |-> FALSE, txt |-> << >>]
File(txt) == [exists |-> TRUE, txt |-> txt]
NoPng == [exists |-> FALSE, stem |-> 0, desc |-> << >>]

\* ------------------------------------------------------------ the layout
\* NumGroups drivers: the first lists all targets the later ones do not, every
\* later one lists a single target.
Targets == 1..NumTargets
GroupIds == 1..NumGroups
GroupLen(g) == IF g = 1 THEN NumTargets - (NumGroups - 1) ELSE 1
GroupBase(g) == IF g = 1 THEN 0 ELSE NumTargets - NumGroups + (g - 1)
Pages == 1..GroupLen(1)

\* items[i] of the manifest of group grp: the stem of page i
build_manifest_for_driver(g) == [p \in 1..GroupLen(g) |-> GroupBase(g) + p]

\* ---------------------------------------------------------- descriptions
KnobDef(k, v) == [knob |-> k, val |-> v]
FullDesc == << KnobDef("springAmp", "0.5"), KnobDef("springTurns", "8"),
               KnobDef("lineThick", "1pt"), KnobDef("axisLift", "0.1"),
               KnobDef("labelSep", "2pt") >>
SNIPPET_TPL == << KnobDef("springAmp", ""), KnobDef("springTurns", ""),
                  KnobDef("lineThick", ""), KnobDef("axisLift", "") >>

\* text of a snippet that is no knob declaration
Text(str) == [knob |-> "", val |-> str]

\* re.sub(r"(\\def\\knob\{)[^}]+(\})", r"\g<1>val\2", txt): a declaration of
\* knob with a non-empty value gets the value val; nothing else changes.
RECURSIVE SubKnobBraced(_, _, _)
SubKnobBraced(txt, knob, val) ==
    IF txt = << >> THEN << >>
    ELSE IF Head(txt).knob = knob /\ Head(txt).val # ""
         THEN << [Head(txt) EXCEPT !.val = val], Text("}") >>
                 \o SubKnobBraced(Tail(txt), knob, val)
         ELSE << Head(txt) >> \o SubKnobBraced(Tail(txt), knob, val)

SubKnobToggle(txt, knob, val) ==
    [n \in DOMAIN txt |->
        IF txt[n].knob = knob /\ txt[n].val # ""
        THEN [txt[n] EXCEPT !.val = IF @ = val THEN "0" ELSE val]
        ELSE txt[n]]

SubKnobAnyKnob(txt, knob, val) ==
    [n \in DOMAIN txt |->
        IF txt[n].knob # "" /\ txt[n].val # ""
        THEN [txt[n] EXCEPT !.val = val]
        ELSE txt[n]]

SubKnob(txt, knob, val) ==
    [n \in DOMAIN txt |->
        IF txt[n].knob = knob /\ txt[n].val # ""
        THEN [txt[n] EXCEPT !.val = val]
        ELSE txt[n]]

RECURSIVE tweak_knobs(_, _)
tweak_knobs(txt, adjust) ==
    IF adjust = << >> THEN txt
    ELSE tweak_knobs(SubKnob(txt, Head(adjust)[1], Head(adjust)[2]), Tail(adjust))

\* the adjust dict refine_page_once builds for a score below SSIM_OK
AdjustForInclusive(s) ==
    IF s <= LowBucket
    THEN << <<"springAmp", "0.8">>, <<"springTurns", "12">> >>
    ELSE << <<"lineThick", "1.6pt">>, <<"axisLift", "0.12">> >>

AdjustFor(s) ==
    IF s < LowBucket
    THEN << <<"springAmp", "0.8">>, <<"springTurns", "12">> >>
    ELSE << <<"lineThick", "1.6pt">>, <<"axisLift", "0.12">> >>

\* the raster image latexmk + the rasterizer produce from a snippet
Render(t, d) == [exists |-> TRUE, stem |-> t, desc |-> d]

\* ------------------------------------------------------------------ state
VARIABLES
    pc,        \* position in main(): boot, compile, refine, rerender, add, commit, done, aborted
    grp,       \* index of the driver being processed (drv)
    page,      \* i of enumerate(items, start=1)
    attempt,   \* the loop variable of for attempt in range(6); 6 once the range is used up
    gen_png,   \* page number in the name of the PNG the next evaluation reads
    ok,        \* ok of the last refine_page_once
    score,     \* score of the last refine_page_once
    adjust,    \* the adjust dict of the last refine_page_once, empty when it built none
    snippet,   \* snippet[t]: the .tikz.tex file of target t
    out,       \* out[g][p]: content of figures/out/<slug g>_<p>.png
    index,     \* git index: [snip: t -> file, png: g -> p -> file]
    head,      \* content of the last commit, same shape as index
    status,    \* status[t]: Pending, Converged (ok and break), Exhausted (range used up)
    evals,     \* number of refine_page_once calls that returned for the current target
    evaluated, \* evaluated[t]: refine_page_once has scored t
    added,     \* added[t]: page number of the PNG given to git add for t, 0 before
    commits,   \* commits[g]: git commit has been invoked for group g
    failed,    \* the step whose render or image read failed, "none" otherwise
    error,     \* the exception that ended main(), "none" otherwise
    cand,      \* the candidate image the last refine_page_once read (b)
    changes,   \* number of tweak_knobs calls that changed the current target's snippet
    same2,     \* two consecutive evaluations of the current target, the first at
               \* attempt 1 or later, fell in the same bucket
    knobs,     \* a tweak_knobs call on its own: [txt, adjust, once, twice, calls]
    images,    \* an ssim_score call on its own: [a, b, resized, scored, calls]
    tree       \* the files gen_chapter_list.py reads and writes, on its own

\* the variables of the runs of one function on its own; main() leaves them alone
aux == << knobs, images, tree >>

mainvars == << pc, grp, page, attempt, gen_png, ok, score, adjust, snippet, out, index,
               head, status, evals, evaluated, added, commits, failed, error, cand,
               changes, same2 >>

vars == << pc, grp, page, attempt, gen_png, ok, score, adjust, snippet, out, index,
           head, status, evals, evaluated, added, commits, failed, error, cand,
           changes, same2, aux >>

EmptyTree == [snip |-> [t \in Targets |-> NoFile],
              png |-> [g \in GroupIds |-> [p \in Pages |-> NoPng]]]

item == build_manifest_for_driver(grp)[page]

\* the state main() starts in
MainInit ==
    /\ pc = "boot"
    /\ grp = 1
    /\ page = 1
    /\ attempt = 0
    /\ gen_png = 1
    /\ ok = FALSE
    /\ score = 0
    /\ adjust = << >>
    /\ \E new \in {0, 1} :   \* the first target's PNG may be new: no snippet yet
          snippet = [t \in Targets |-> IF t = new THEN NoFile ELSE File(FullDesc)]
    /\ out = [g \in GroupIds |-> [p \in Pages |-> NoPng]]
    /\ index = EmptyTree
    /\ head = EmptyTree
    /\ status = [t \in Targets |-> "Pending"]
    /\ evals = 0
    /\ evaluated = [t \in Targets |-> FALSE]
    /\ added = [t \in Targets |-> 0]
    /\ commits = [g \in GroupIds |-> FALSE]
    /\ failed = "none"
    /\ error = "none"
    /\ cand = NoPng
    /\ changes = 0
    /\ same2 = FALSE

Init ==
    /\ MainInit
    /\ knobs = << >>
    /\ images = << >>
    /\ tree = << >>

\* an exception leaves main(): nothing after it runs
Raise(exc) ==
    /\ pc' = "aborted"
    /\ error' = exc

\* run(cmd) is subprocess.run(cmd, check=True): a non-zero exit raises, and so does
\* pdf_to_png when no rasterizer is installed; resume is where main() would go on
run_failed_unchecked(exc, resume) ==
    /\ pc' = resume
    /\ error' = error

run_failed(exc, resume) == Raise(exc)

\* subprocess.run(["git", ...]) without check: the return code is dropped
git_failed_checked(resume) == Raise("CalledProcessError")

git_failed(resume) ==
    /\ pc' = resume
    /\ error' = error

\* gen_chapter_list.main(): a target without a snippet gets a copy of the template
ensure_snippet_copy(snip) == File(SNIPPET_TPL)

\* if not snip.exists(): shutil.copyfile(SNIPPET_TPL, snip)
ensure_snippet(snip) == IF ~snip.exists THEN File(SNIPPET_TPL) ELSE snip

EnsureSnippets(snips) == [t \in Targets |-> ensure_snippet(snips[t])]

\* main() step 1: run(["python", "tooling/gen_chapter_list.py"]) and the glob of drivers
Bootstrap ==
    /\ pc = "boot"
    /\ snippet' = EnsureSnippets(snippet)
    /\ pc' = "compile"
    /\ UNCHANGED << grp, page, attempt, gen_png, ok, score, adjust, out, index, head,
                    status, evals, evaluated, added, commits, failed, error,
                    cand, changes, same2, aux >>

BootstrapFails ==
    /\ pc = "boot"
    /\ failed' = "boot"
    /\ run_failed("CalledProcessError", "compile")
    /\ UNCHANGED << grp, page, attempt, gen_png, ok, score, adjust, snippet, out,
                    index, head, status, evals, evaluated, added, commits,
                    cand, changes, same2, aux >>

\* compile_driver(drv); pdf_to_png(pdf, out_prefix); items = build_manifest_for_driver:
\* page p of the batch PDF is the render of the p-th listed snippet
BatchPages(g) ==
    [p \in Pages |-> IF p <= GroupLen(g)
                     THEN Render(build_manifest_for_driver(g)[p],
                                 snippet[build_manifest_for_driver(g)[p]].txt)
                     ELSE out[g][p]]

\* gen_png = Path(f"{out_prefix}_{i:03d}.png"): the PNG read at attempt 0 of page i
\* (pdf_to_png with Ghostscript, which numbers the pages from 001)
BatchPageOne(i) == 1

BatchPage(i) == i

\* a pass of for i, item in enumerate(items, start=1) begins, when main() is there
StartItem(i, resume) ==
    IF resume = "refine"
    THEN /\ page' = i
         /\ gen_png' = BatchPage(i)
         /\ attempt' = 0
         /\ evals' = 0
         /\ changes' = 0
         /\ same2' = FALSE
    ELSE UNCHANGED << page, gen_png, attempt, evals, changes, same2 >>

CompileBatch ==
    /\ pc = "compile"
    /\ out' = [out EXCEPT ![grp] = BatchPages(grp)]
    /\ pc' = "refine"
    /\ StartItem(1, "refine")
    /\ UNCHANGED << grp, ok, score, adjust, snippet, index, head, status, evaluated,
                    added, commits, failed, error,
                    cand, aux >>

\* latexmk or the rasterizer exits non-zero, or neither gs nor magick is installed
CompileBatchFails ==
    /\ pc = "compile"
    /\ failed' = "compile"
    /\ \E exc \in {"CalledProcessError", "RuntimeError"} : run_failed(exc, "refine")
    /\ StartItem(1, pc')
    /\ UNCHANGED << grp, ok, score, adjust, snippet, out, index, head, status,
                    evaluated, added, commits,
                    cand, aux >>

\* score >= SSIM_OK in refine_page_once
AcceptsLow(s) == s >= LowBucket

Accepts(s) == s >= SSIM_OK

\* refine_page_once(item, gen_png) and the if ok: break that follows it
RefineOnce ==
    /\ pc = "refine"
    /\ out[grp][gen_png].exists
    /\ \E s \in Scores :
        \* the same image against the same target scores the same
        /\ out[grp][gen_png] = cand => s = score
        /\ score' = s
        /\ ok' = Accepts(s)
        /\ same2' = (same2 \/ (attempt >= 2 /\ ~Accepts(s) /\ AdjustFor(s) = AdjustFor(score)))
        /\ IF Accepts(s)
           THEN /\ status' = [status EXCEPT ![item] = "Converged"]
                /\ pc' = "add"
                /\ adjust' = << >>
                /\ UNCHANGED snippet
           ELSE /\ adjust' = AdjustFor(s)
                /\ snippet' = [snippet EXCEPT ![item] =
                                  File(tweak_knobs(snippet[item].txt, AdjustFor(s)))]
                /\ pc' = "rerender"
                /\ UNCHANGED status
    /\ evals' = evals + 1
    /\ evaluated' = [evaluated EXCEPT ![item] = TRUE]
    /\ cand' = out[grp][gen_png]
    /\ changes' = IF snippet' # snippet THEN changes + 1 ELSE changes
    /\ UNCHANGED << grp, page, attempt, gen_png, out, index, head, added, commits,
                    failed, error, aux >>

\* to_gray raises RuntimeError("Cannot read ..."): the target or the candidate
\* does not decode
RefineUnreadable ==
    /\ pc = "refine"
    /\ failed' = "refine"
    /\ Raise("RuntimeError")
    /\ UNCHANGED << grp, page, attempt, gen_png, ok, score, adjust, snippet, out,
                    index, head, status, evals, evaluated, added, commits,
                    cand, changes, same2, aux >>

\* for attempt in range(6) has no next value
RangeDoneLate(a) == a > MaxAttempts

RangeDone(a) == a >= MaxAttempts

\* the end of the body of the attempt loop, when main() gets there
NextAttempt(resume) ==
    IF resume = "aborted"
    THEN UNCHANGED << gen_png, attempt, status >>
    ELSE /\ gen_png' = 1
         /\ attempt' = attempt + 1
         /\ status' = IF resume = "add"
                      THEN [status EXCEPT ![item] = "Exhausted"]
                      ELSE status

AfterRerender == IF RangeDone(attempt + 1) THEN "add" ELSE "refine"

\* the temporary 1-figure driver: compile_driver(tmp); pdf_to_png(..., out_prefix)
\* writes <out_prefix>_001.png; gen_png = <out_prefix>_001.png
TmpDriverPagesAll == [out EXCEPT ![grp] = BatchPages(grp)]

\* the pages of a driver with the one \input of item["snippet"]
TmpDriverPages == [out EXCEPT ![grp][1] = Render(item, snippet[item].txt)]

Rerender ==
    /\ pc = "rerender"
    /\ out' = TmpDriverPages
    /\ pc' = AfterRerender
    /\ NextAttempt(AfterRerender)
    /\ UNCHANGED << grp, page, ok, score, adjust, snippet, index, head, evals,
                    evaluated, added, commits, failed, error,
                    cand, changes, same2, aux >>

RerenderFails ==
    /\ pc = "rerender"
    /\ failed' = "rerender"
    /\ \E exc \in {"CalledProcessError", "RuntimeError"} : run_failed(exc, AfterRerender)
    /\ NextAttempt(pc')
    /\ UNCHANGED << grp, page, ok, score, adjust, snippet, out, index, head, evals,
                    evaluated, added, commits,
                    cand, changes, same2, aux >>

AfterAdd == IF page < GroupLen(grp) THEN "refine" ELSE "commit"

\* subprocess.run(["git", "add", snippet, gen_png]) after the attempt loop
Staged ==
    [index EXCEPT !.snip[item] = snippet[item],
                  !.png[grp][gen_png] = out[grp][gen_png]]

GitAdd ==
    /\ pc = "add"
    /\ added' = [added EXCEPT ![item] = gen_png]
    /\ index' = Staged
    /\ pc' = AfterAdd
    /\ StartItem(page + 1, AfterAdd)
    /\ UNCHANGED << grp, ok, score, adjust, snippet, out, head, status, evaluated,
                    commits, failed, error,
                    cand, aux >>

GitAddFails ==
    /\ pc = "add"
    /\ added' = [added EXCEPT ![item] = gen_png]
    /\ git_failed(AfterAdd)
    /\ StartItem(page + 1, pc')
    /\ UNCHANGED << grp, ok, score, adjust, snippet, out, index, head, status,
                    evaluated, commits, failed,
                    cand, aux >>

AfterCommit == IF grp < NumGroups THEN "compile" ELSE "done"

\* subprocess.run(["git", "commit", "-m", ...]) after the loop over the items
GitCommit ==
    /\ pc = "commit"
    /\ commits' = [commits EXCEPT ![grp] = TRUE]
    /\ head' = index
    /\ pc' = AfterCommit
    /\ grp' = IF grp < NumGroups THEN grp + 1 ELSE grp
    /\ UNCHANGED << page, attempt, gen_png, ok, score, adjust, snippet, out, index,
                    status, evals, evaluated, added, failed, error,
                    cand, changes, same2, aux >>

GitCommitFails ==
    /\ pc = "commit"
    /\ commits' = [commits EXCEPT ![grp] = TRUE]
    /\ git_failed(AfterCommit)
    /\ grp' = IF pc' = "compile" THEN grp + 1 ELSE grp
    /\ UNCHANGED << page, attempt, gen_png, ok, score, adjust, snippet, out, index,
                    head, status, evals, evaluated, added, failed,
                    cand, changes, same2, aux >>

Next ==
    \/ Bootstrap
    \/ BootstrapFails
    \/ CompileBatch
    \/ CompileBatchFails
    \/ RefineOnce
    \/ RefineUnreadable
    \/ Rerender
    \/ RerenderFails
    \/ GitAdd
    \/ GitAddFails
    \/ GitCommit
    \/ GitCommitFails

Spec == Init /\ [][Next]_vars

TypeOK ==
    /\ pc \in {"boot", "compile", "refine", "rerender", "add", "commit", "done", "aborted"}
    /\ grp \in GroupIds
    /\ page \in Pages
    /\ attempt \in 0..MaxAttempts
    /\ gen_png \in Pages
    /\ evals \in 0..MaxAttempts
    /\ failed \in {"none", "boot", "compile", "refine", "rerender"}

\* ------------------------------------------------------------ the claims
Terminal(t) == status[t] \in {"Converged", "Exhausted"}
ItemsOf(g) == {build_manifest_for_driver(g)[p] : p \in 1..GroupLen(g)}

C2_ConvergedOnlyAboveThreshold ==
    /\ [](pc = "add" /\ status[item] = "Converged" => score >= SSIM_OK)
    /\ [][\A t \in Targets :
            status[t] # "Converged" /\ status'[t] = "Converged"
                => t = item /\ pc = "refine" /\ score' >= SSIM_OK]_vars

C2_Witness == pc = "add" /\ status[item] = "Converged" /\ score = SSIM_OK /\ attempt > 0

\* C3: the attempt count goes up by exactly 1 per non-converging evaluation (it
\* equals the number of non-converging evaluations whenever the next evaluation is
\* due), never exceeds 6, and a session is terminal after at most 6 evaluations;
\* main() finishes: while it has not ended it has a next step, every step lowers
\* a natural number, and when it ends without an exception every target is terminal.
SessionSteps == 2 * MaxAttempts + 1
GroupSteps == SessionSteps * GroupLen(1) + 2
StepsLeft ==
    CASE pc = "boot" -> NumGroups * GroupSteps + 1
      [] pc = "compile" -> (NumGroups - grp + 1) * GroupSteps
      [] pc = "refine" -> (NumGroups - grp) * GroupSteps + 1
                            + SessionSteps * (GroupLen(grp) - page)
                            + 2 * (MaxAttempts - attempt) + 1
      [] pc = "rerender" -> (NumGroups - grp) * GroupSteps + 1
                            + SessionSteps * (GroupLen(grp) - page)
                            + 2 * (MaxAttempts - attempt)
      [] pc = "add" -> (NumGroups - grp) * GroupSteps + 1
                            + SessionSteps * (GroupLen(grp) - page) + 1
      [] pc = "commit" -> (NumGroups - grp) * GroupSteps + 1
      [] OTHER -> 0

C3_AttemptInv ==
    /\ attempt <= MaxAttempts
    /\ evals <= MaxAttempts
    /\ pc = "refine" => evals = attempt /\ attempt < MaxAttempts
    /\ pc = "rerender" => evals = attempt + 1 /\ ~ok
    /\ pc = "add" => Terminal(item)
    /\ pc = "add" /\ status[item] = "Exhausted" => evals = MaxAttempts /\ attempt = MaxAttempts
    /\ pc = "done" => \A t \in Targets : Terminal(t)
    /\ pc \notin {"done", "aborted"} => ENABLED Next
    /\ StepsLeft >= 0

C6_TargetFailureIsLocal ==
    failed \in {"refine", "rerender"} /\ ~ENABLED Next
        => \A t \in Targets : t > item => Terminal(t)

\* C7: after a failed batch render no target of the group is evaluated, modified,
\* staged or committed; after a failed single-target re-render the target is not
\* evaluated again; no step of main() follows a failed render.
C7_FailedInv ==
    /\ failed \in {"compile", "rerender"} => pc = "aborted"
    /\ failed = "compile" =>
          /\ ~commits[grp]
          /\ \A t \in ItemsOf(grp) :
                /\ ~evaluated[t]
                /\ status[t] = "Pending"
                /\ snippet[t].txt \in {FullDesc, SNIPPET_TPL}
                /\ added[t] = 0
                /\ ~index.snip[t].exists
          /\ \A p \in Pages : ~index.png[grp][p].exists
    /\ failed = "rerender" => status[item] = "Pending" /\ added[item] = 0

C7_RenderFailureIsFatal ==
    /\ []C7_FailedInv
    /\ [][(failed # "none") => (evals' = evals /\ evaluated' = evaluated)]_vars

C7_Witness == failed = "compile" /\ grp = NumGroups /\ pc = "aborted"

\* C8: a failed git add or git commit for a Converged target leaves it Converged
\* and does not abort the run: main() only ever aborts on a render or image
\* failure, and when it ends normally every target was processed and every
\* group's commit was invoked.
GitAddFailedFor(t) == added[t] # 0 /\ ~index.snip[t].exists

C8_Inv ==
    /\ pc = "aborted" => failed # "none"
    /\ \A t \in Targets : GitAddFailedFor(t) => Terminal(t)
    /\ pc = "done" =>
          /\ \A t \in Targets : Terminal(t) /\ added[t] # 0
          /\ \A g \in GroupIds : commits[g]

C8_GitFailureDoesNotAbort ==
    /\ []C8_Inv
    /\ [][\A t \in Targets : status[t] = "Converged" => status'[t] = "Converged"]_vars

C8_Witness ==
    /\ pc = "done"
    /\ GitAddFailedFor(1)
    /\ status[1] = "Converged"
    /\ \A t \in Targets : t > 1 => ~GitAddFailedFor(t)

\* C9: sessions are independent: after bootstrap a description is written only by
\* an evaluation of its own target's session; the candidate evaluated at attempt 0
\* is the batch-render page of that target, rendered from its own description;
\* and the outcome of a session is decided by its own scores.
C9_Inv ==
    /\ pc = "refine" /\ attempt = 0 =>
          /\ gen_png = page
          /\ out[grp][gen_png] = Render(item, snippet[item].txt)
    /\ pc = "add" =>
          /\ status[item] = "Converged" <=> score >= SSIM_OK
          /\ status[item] = "Exhausted" <=> (score < SSIM_OK /\ evals = MaxAttempts)

Hundredths(v) ==
    CASE v = "0.8" -> 80
      [] v = "12" -> 1200
      [] v = "0.12" -> 12
      [] OTHER -> -1

Keys(adj) == {adj[n][1] : n \in DOMAIN adj}
ValueOf(adj, k) == adj[CHOOSE n \in DOMAIN adj : adj[n][1] = k][2]

C10_Inv ==
    /\ pc = "add" /\ ok => score >= SSIM_OK /\ adjust = << >>
    /\ pc = "rerender" =>
        /\ score < SSIM_OK
        /\ score < LowBucket =>
              /\ Len(adjust) = 2
              /\ Keys(adjust) = {"springAmp", "springTurns"}
              /\ Hundredths(ValueOf(adjust, "springAmp")) \in 70..80
              /\ Hundredths(ValueOf(adjust, "springTurns")) \in 1000..1200
        /\ score >= LowBucket =>
              /\ Len(adjust) = 2
              /\ Keys(adjust) = {"lineThick", "axisLift"}
              /\ ValueOf(adjust, "lineThick") = "1.6pt"
              /\ Hundredths(ValueOf(adjust, "axisLift")) \in 12..15

C10_PolicyIsFunctionOfScore ==
    /\ []C10_Inv
    /\ [][pc = "refine" /\ pc' = "add" => score' >= SSIM_OK /\ snippet' = snippet]_vars
    /\ [][pc = "refine" /\ pc' = "rerender" =>
            snippet'[item].txt = tweak_knobs(snippet[item].txt, adjust')]_vars

C10_Witness == pc = "rerender" /\ score = LowBucket /\ attempt > 0

\* C11: with a per-target override configured, the assignment applied after a
\* failing evaluation is the bucket's assignment with the value of every key the
\* override names replaced by the override's value, the other keys kept.
\* The override table of the target names: target 1 overrides the line thickness.
OVERRIDES ==
    [t \in Targets |-> IF t = 1 THEN << <<"lineThick", "2.0pt">> >> ELSE << >>]

Effective(bucket, ov) ==
    [n \in DOMAIN bucket |->
        IF \E k \in DOMAIN ov : ov[k][1] = bucket[n][1]
        THEN << bucket[n][1], ov[CHOOSE k \in DOMAIN ov : ov[k][1] = bucket[n][1]][2] >>
        ELSE bucket[n]]

C11_OverrideReplacesBucketKeys ==
    pc = "rerender" /\ OVERRIDES[item] # << >>
        => adjust = Effective(AdjustFor(score), OVERRIDES[item])

\* ------------------------------------------- tweak_knobs on its own
MaxDecls == 2

KnobNames == {"springAmp", "lineThick", "labelSep"}
KnobValues == {"", "0.8", "1pt"}
Entries == {KnobDef(k, v) : k \in KnobNames, v \in KnobValues} \cup {Text("% knobs")}
Descriptions == UNION {[1..n -> Entries] : n \in 0..MaxDecls}
Deltas == {AdjustFor(s) : s \in {x \in Scores : ~Accepts(x)}}

KnobInit ==
    /\ MainInit
    /\ snippet[1].exists
    /\ images = << >>
    /\ tree = << >>
    /\ \E d \in Descriptions : \E a \in Deltas :
          knobs = [txt |-> d, adjust |-> a, file |-> d, once |-> d, calls |-> 0]

\* tweak_knobs(snippet_path, adjust): read_text, the substitutions, write_text
TweakFile ==
    /\ knobs.calls < 2
    /\ knobs' = [knobs EXCEPT
                    !.file = tweak_knobs(knobs.file, knobs.adjust),
                    !.once = IF knobs.calls = 0
                             THEN tweak_knobs(knobs.file, knobs.adjust)
                             ELSE knobs.once,
                    !.calls = knobs.calls + 1]
    /\ UNCHANGED << mainvars, images, tree >>

KnobNext == TweakFile

KnobSpec == KnobInit /\ [][KnobNext]_vars

\* C12: applying a Knob Delta is idempotent: tweak_knobs applied twice yields the
\* description tweak_knobs applied once yields, for every description (also with
\* knobs declared with an empty value) and every delta the policy produces.
C12_TweakIdempotent == knobs.calls = 2 => knobs.file = knobs.once

C12_Witness ==
    /\ knobs.calls = 2
    /\ knobs.once # knobs.txt
    /\ \E n \in DOMAIN knobs.txt :
          knobs.txt[n].knob \in Keys(knobs.adjust) /\ knobs.txt[n].val = ""

\* C13: applying a Knob Delta changes only the values of declarations of knobs the
\* delta names: the other declarations, the other text, the knob names and the
\* order stay, and a delta none of whose knobs is declared changes nothing and
\* raises nothing.
Declared(txt) == {txt[n].knob : n \in DOMAIN txt}

C13_TweakFrame ==
    /\ knobs.calls = 0 => ENABLED TweakFile
    /\ knobs.calls >= 1 =>
          /\ Len(knobs.once) = Len(knobs.txt)
          /\ \A n \in DOMAIN knobs.txt :
                /\ knobs.once[n].knob = knobs.txt[n].knob
                /\ knobs.txt[n].knob \notin Keys(knobs.adjust)
                      => knobs.once[n] = knobs.txt[n]
          /\ Declared(knobs.txt) \cap Keys(knobs.adjust) = {} => knobs.once = knobs.txt

C13_Witness ==
    /\ knobs.calls >= 1
    /\ knobs.once # knobs.txt
    /\ \E n \in DOMAIN knobs.txt : knobs.txt[n].knob = "labelSep" /\ knobs.txt[n].val # ""
    /\ ~(Keys(knobs.adjust) \subseteq Declared(knobs.txt))

\* ------------------------------------- gen_chapter_list.main() on its own
MaxPngs == 2
MaxBootRuns == 2

\* a PNG name is <ch>_<idx>_<slug>.png, or <slug>.png when ch is empty; ch and idx
\* are digit strings and slug a string of pieces
PngName(ch, idx, slug) == [ch |-> ch, idx |-> idx, slug |-> slug]
Names ==
    { PngName(<<1>>, <<1>>, <<"a">>), PngName(<<0, 1>>, <<2>>, <<"a">>),
      PngName(<<1, 2, 3>>, <<1>>, <<"a">>), PngName(<< >>, << >>, <<"a">>),
      PngName(<< >>, << >>, <<"a", ".tikz.tex">>), PngName(<<2>>, <<1>>, <<"b">>) }

\* the names in the order sorted() gives their strings
NameOrder ==
    << PngName(<<0, 1>>, <<2>>, <<"a">>), PngName(<<1, 2, 3>>, <<1>>, <<"a">>),
       PngName(<<1>>, <<1>>, <<"a">>), PngName(<<2>>, <<1>>, <<"b">>),
       PngName(<< >>, << >>, <<"a">>), PngName(<< >>, << >>, <<"a", ".tikz.tex">>) >>
Rank(n) == CHOOSE k \in DOMAIN NameOrder : NameOrder[k] = n

\* int() of a digit string
RECURSIVE IntOf(_)
IntOf(ds) == IF ds = << >> THEN 0 ELSE IntOf(SubSeq(ds, 1, Len(ds) - 1)) * 10 + ds[Len(ds)]

\* CH_RE.match(png.name): one or two digits, "_", digits, "_"
CH_RE(n) == Len(n.ch) \in 1..2 /\ Len(n.idx) >= 1

ChSlug(c) == [kind |-> "ch", ch |-> c]
MiscSlug == [kind |-> "misc", ch |-> 0]
GroupOf(n) == IF CH_RE(n) THEN ChSlug(IntOf(n.ch)) ELSE MiscSlug
Slugs == {GroupOf(n) : n \in Names}

\* png.stem is the name without ".png"; the snippet of a stem is <stem>.tikz.tex
SnippetName(stem) == [stem EXCEPT !.slug = @ \o << ".tikz.tex" >>]
Rel(g, stem) == [dir |-> g, name |-> SnippetName(stem)]

\* items.sort(key=(idx, stem)) of a chapter, sorted(misc) of the rest
Before(x, y, g) ==
    IF g.kind = "ch" /\ IntOf(x.idx) # IntOf(y.idx)
    THEN IntOf(x.idx) < IntOf(y.idx)
    ELSE Rank(x) < Rank(y)
RECURSIVE Sorted(_, _)
Sorted(S, g) ==
    IF S = {} THEN << >>
    ELSE LET first == CHOOSE x \in S : \A y \in S \ {x} : Before(x, y, g)
         IN << first >> \o Sorted(S \ {first}, g)

\* the \input lines written to <slug>_list.tex
ListOf(g, pngs) ==
    LET items == Sorted({n \in pngs : GroupOf(n) = g}, g)
    IN [k \in DOMAIN items |-> Rel(g, items[k])]

\* Path(rel).name.replace(".tikz.tex", "") and PNG_DIR / f"{stem}.png"
StemOf(rel) == [rel.name EXCEPT !.slug = SelectSeq(@, LAMBDA piece : piece # ".tikz.tex")]
ManifestOf(lines) ==
    [k \in DOMAIN lines |-> [stem |-> StemOf(lines[k]), snippet |-> lines[k],
                             target |-> StemOf(lines[k])]]

BootInit ==
    /\ MainInit
    /\ snippet[1].exists
    /\ knobs = << >>
    /\ images = << >>
    /\ \E pngs \in {S \in SUBSET Names : Cardinality(S) <= MaxPngs} :
       \E have \in SUBSET pngs :
          tree = [png |-> pngs,
                  snip |-> [n \in Names |-> IF n \in have THEN File(FullDesc) ELSE NoFile],
                  lists |-> [g \in Slugs |-> << >>],
                  drivers |-> {},
                  runs |-> 0,
                  last |-> "init"]

GenChapterList ==
    /\ tree.runs < MaxBootRuns
    /\ LET groups == {GroupOf(n) : n \in tree.png}
       IN tree' = [tree EXCEPT
                      !.snip = [n \in Names |-> IF n \in tree.png
                                                THEN ensure_snippet(tree.snip[n])
                                                ELSE tree.snip[n]],
                      !.lists = [g \in Slugs |-> IF g \in groups
                                                 THEN ListOf(g, tree.png)
                                                 ELSE tree.lists[g]],
                      !.drivers = @ \cup groups,
                      !.runs = @ + 1,
                      !.last = "gen"]
    /\ UNCHANGED << mainvars, knobs, images >>

\* a refinement pass between two runs: tweak_knobs on the description of a target
TweakBetweenRuns ==
    /\ tree.runs >= 1
    /\ \E n \in tree.png : \E d \in Deltas :
          /\ tree.snip[n].exists
          /\ tree' = [tree EXCEPT !.snip[n] = File(tweak_knobs(tree.snip[n].txt, d)),
                                  !.last = "tweak"]
    /\ UNCHANGED << mainvars, knobs, images >>

BootNext == GenChapterList \/ TweakBetweenRuns

BootSpec == BootInit /\ [][BootNext]_vars

\* C14: a run of gen_chapter_list.main() leaves the content of every description
\* file that existed before the run unchanged, also on repeated runs and on runs
\* after refinement passes changed knob values.
C14_BootstrapKeepsDescriptions ==
    [][tree'.runs # tree.runs =>
          \A n \in Names : tree.snip[n].exists => tree'.snip[n] = tree.snip[n]]_vars

C14_Witness ==
    /\ tree.runs >= 2
    /\ tree.last = "gen"
    /\ \E n \in tree.png :
          /\ tree.snip[n].exists
          /\ tree.snip[n].txt # FullDesc
          /\ tree.snip[n].txt # SNIPPET_TPL

\* C15: once bootstrap has run, every discovered target has a description, is in
\* the listing of its own group (the chapter group when the name has the
\* chapter/index prefix, misc otherwise) exactly once and in no other listing, and
\* the manifest of that listing maps its description back to the target.
Places(n) ==
    {pl \in {<<g, k>> : g \in Slugs, k \in 1..Cardinality(Names)} :
        /\ pl[2] \in DOMAIN tree.lists[pl[1]]
        /\ tree.lists[pl[1]][pl[2]] = Rel(GroupOf(n), n)}

C15_OneDescriptionPerTarget ==
    tree.runs >= 1 =>
       \A n \in tree.png :
          /\ tree.snip[n].exists
          /\ Cardinality(Places(n)) = 1
          /\ \A pl \in Places(n) :
                /\ pl[1] = GroupOf(n)
                /\ (pl[1].kind = "ch") = (Len(n.ch) \in 1..2)
                /\ ManifestOf(tree.lists[pl[1]])[pl[2]].target = n

\* --------------------------------------------------- ssim_score on its own
MaxDim == 3

\* a grayscale array: shape is << rows, columns >>; px tells whose pixels it holds
\* and whether they were resampled
Gray(who, rows, cols) == [shape |-> << rows, cols >>, px |-> << who, "read" >>]

\* cv2.resize(src, dsize): dsize is (width, height), the result has height rows
resize(src, dsize) == [shape |-> << dsize[2], dsize[1] >>, px |-> << src.px[1], "resized" >>]

\* (a.shape[1], a.shape[0]) in 0-based indexing: columns first, then rows
dsize_unswapped(a) == << a.shape[1], a.shape[2] >>

dsize_of(a) == << a.shape[2], a.shape[1] >>

ImgInit ==
    /\ MainInit
    /\ snippet[1].exists
    /\ knobs = << >>
    /\ tree = << >>
    /\ \E ra \in 1..MaxDim : \E ca \in 1..MaxDim : \E rb \in 1..MaxDim : \E cb \in 1..MaxDim :
          images = [a |-> Gray("target", ra, ca), b |-> Gray("candidate", rb, cb),
                    ssim_a |-> Gray("target", ra, ca), ssim_b |-> Gray("candidate", rb, cb),
                    result |-> "none", calls |-> 0]

\* ssim_score(a, b): b is rebound to the resized array when the shapes differ, then
\* ssim(a, b), which raises ValueError on arrays of different shape
ssim_score ==
    /\ images.calls = 0
    /\ LET a == images.a
           b == IF images.a.shape # images.b.shape
                THEN resize(images.b, dsize_of(images.a))
                ELSE images.b
       IN images' = [images EXCEPT !.ssim_a = a, !.ssim_b = b,
                                   !.result = IF a.shape = b.shape THEN "score" ELSE "ValueError",
                                   !.calls = 1]
    /\ UNCHANGED << mainvars, knobs, tree >>

ImgNext == ssim_score

ImgSpec == ImgInit /\ [][ImgNext]_vars

\* C16: for every pair of dimensions, the score is computed on the target as
\* passed and on a candidate of the target's dimensions; only the candidate is
\* resized, and only when the dimensions differ.
C16_ResizesOnlyCandidate ==
    /\ [][/\ images'.a = images.a
          /\ images'.b = images.b
          /\ images'.ssim_a = images.a
          /\ images'.result = "score"
          /\ images'.ssim_b.shape = images.a.shape
          /\ images'.ssim_b.px[1] = "candidate"
          /\ (images'.ssim_b = images.b) = (images.a.shape = images.b.shape)]_vars

C16_Witness ==
    /\ images.calls = 1
    /\ images.a.shape[1] # images.a.shape[2]
    /\ images.b.shape[1] # images.a.shape[1]
    /\ images.b.shape[2] # images.a.shape[2]
    /\ images.ssim_b.px = << "candidate", "resized" >>

C18_Inv ==
    /\ pc = "compile" =>
          /\ \A p \in Pages : out[grp][p] = NoPng
          /\ \A t \in ItemsOf(grp) : ~evaluated[t]
    /\ \A g \in GroupIds : g > grp => \A p \in Pages : out[g][p] = NoPng
    /\ pc \in {"refine", "rerender", "add"} =>
          \A p \in 2..GroupLen(grp) :
             out[grp][p].exists /\ out[grp][p].stem = build_manifest_for_driver(grp)[p]

C18_BatchOnceThenSingle ==
    /\ []C18_Inv
    /\ [][/\ grp' >= grp
          /\ (pc' = "compile" /\ pc # "compile") =>
                (pc = "boot" \/ (pc = "commit" /\ grp' = grp + 1))
          /\ (pc = "compile" /\ pc' = "refine") => out' = [out EXCEPT ![grp] = BatchPages(grp)]
          /\ (out' # out /\ pc # "compile") =>
                /\ pc = "rerender"
                /\ out' = [out EXCEPT ![grp][1] = Render(item, snippet[item].txt)]
          /\ pc' = "rerender" => (pc = "refine" /\ ~ok')
          /\ (pc = "refine" /\ attempt = 0 /\ evals' # evals /\ ok') =>
                (snippet' = snippet /\ out' = out /\ pc' = "add" /\ changes' = 0)]_vars

C18_Witness ==
    /\ pc = "add"
    /\ page = 2
    /\ attempt = 0
    /\ status[item] = "Converged"
    /\ status[build_manifest_for_driver(grp)[1]] = "Exhausted"
    /\ out[grp][1].stem = build_manifest_for_driver(grp)[1]

\* ------------------------------- pdf_to_png and the PNG an evaluation reads
MaxPages == 2

\* the number %03d gives the first page: Ghostscript counts from 1, ImageMagick
\* from 0
FirstPage(which) == IF which = "gs" THEN 1 ELSE 0

PngNumbers == 0..MaxPages

\* pdf_to_png(pdf, out_prefix): one <out_prefix>_NNN.png per page of the PDF; the
\* other files stay
pdf_to_png(which, pdf, files) ==
    [k \in PngNumbers |->
        IF k - FirstPage(which) + 1 \in DOMAIN pdf
        THEN pdf[k - FirstPage(which) + 1]
        ELSE files[k]]

RasterInit ==
    /\ MainInit
    /\ snippet[1].exists
    /\ knobs = << >>
    /\ tree = << >>
    /\ \E which \in {"gs", "magick"} : \E n \in 1..MaxPages :
          images = [which |-> which,
                    desc |-> [t \in 1..n |-> FullDesc],
                    files |-> [k \in PngNumbers |-> NoPng],
                    pc |-> "compile", i |-> 1, gen_png |-> 1, attempt |-> 0,
                    read |-> NoPng]

\* the end of a pass of the items loop
RasterNextItem(img) ==
    IF img.i < Len(img.desc)
    THEN [img EXCEPT !.i = @ + 1, !.gen_png = img.i + 1, !.attempt = 0, !.pc = "refine"]
    ELSE [img EXCEPT !.pc = "done"]

\* compile_driver(drv); pdf_to_png(pdf, out_prefix); gen_png of the first item
RasterBatch ==
    /\ images.pc = "compile"
    /\ images' = [images EXCEPT
                     !.files = pdf_to_png(images.which,
                                          [t \in DOMAIN images.desc |-> Render(t, images.desc[t])],
                                          images.files),
                     !.pc = "refine"]
    /\ UNCHANGED << mainvars, knobs, tree >>

\* refine_page_once(item, gen_png): to_gray(gen_png) raises when the file is not
\* there; else score, and tweak_knobs when the score is below SSIM_OK
RasterRefine ==
    /\ images.pc = "refine"
    /\ IF ~images.files[images.gen_png].exists
       THEN images' = [images EXCEPT !.pc = "aborted"]
       ELSE \E s \in Scores :
               IF Accepts(s)
               THEN images' = [RasterNextItem(images) EXCEPT
                                  !.read = images.files[images.gen_png]]
               ELSE images' = [images EXCEPT
                                  !.read = images.files[images.gen_png],
                                  !.desc[images.i] = tweak_knobs(@, AdjustFor(s)),
                                  !.pc = "rerender"]
    /\ UNCHANGED << mainvars, knobs, tree >>

\* compile_driver(tmp); pdf_to_png(tmp.pdf, out_prefix); gen_png = <out_prefix>_001.png
RasterRerender ==
    /\ images.pc = "rerender"
    /\ LET img == [images EXCEPT
                      !.files = pdf_to_png(images.which,
                                           << Render(images.i, images.desc[images.i]) >>,
                                           images.files),
                      !.gen_png = 1,
                      !.attempt = @ + 1]
       IN images' = IF RangeDone(img.attempt)
                    THEN RasterNextItem(img)
                    ELSE [img EXCEPT !.pc = "refine"]
    /\ UNCHANGED << mainvars, knobs, tree >>

RasterNext == RasterBatch \/ RasterRefine \/ RasterRerender

RasterSpec == RasterInit /\ [][RasterNext]_vars

\* C19: every evaluation reads a candidate that is the render of the description
\* of the target being refined, as the description is at the time of the
\* evaluation.
C19_EvaluationReadsFreshRender ==
    (images.pc = "refine" /\ images.files[images.gen_png].exists) =>
        images.files[images.gen_png] = Render(images.i, images.desc[images.i])

\* C20: the buckets assign fixed values, so a session changes its description at
\* most twice; applying the bucket of the previous evaluation again changes
\* nothing; and once two consecutive evaluations from attempt 1 on fell in the
\* same bucket, the description stays and every later re-render gives the same
\* image.
C20_AdjustmentFixpoint ==
    /\ [](changes <= 2)
    /\ [][/\ (pc = "refine" /\ evals' # evals /\ evals >= 1 /\ ~ok'
                 /\ AdjustFor(score') = AdjustFor(score)) => snippet' = snippet
          /\ same2' => snippet' = snippet
          /\ (same2 /\ pc = "rerender" /\ pc' # "aborted") => out' = out]_vars

C20_Witness ==
    /\ pc = "add"
    /\ same2
    /\ changes = 2
    /\ status[item] = "Exhausted"
    /\ snippet[item].txt = tweak_knobs(tweak_knobs(FullDesc, AdjustFor(LowBucket - 1)),
                                       AdjustFor(LowBucket))

====
